---- MODULE Spec2Model ----
(***************************************************************************)
(* Diffie-Hellman key exchange simulator (notebook                         *)
(* diffie-hellman_key_exchange_simulator.ipynb).                           *)
(*                                                                         *)
(* The notebook's functions are modelled from their code: miller_rabin as  *)
(* a state machine that draws one random witness per round, prime_factors, *)
(* is_primitive_root and the modular arithmetic as operators computed the  *)
(* way the code computes them, find_primitive_roots, perform_key_exchange, *)
(* simulate_interception and the orchestrator diffie_hellman_exchange as   *)
(* actions.  Each specification below drives one entry point of the        *)
(* notebook with inputs drawn from bounded sets.                           *)
(***************************************************************************)
EXTENDS Integers, Sequences, FiniteSets, TLC

VARIABLES
    mr,        \* activation of miller_rabin: position, n, k, d, s, counters, result
    mr_seen,   \* the results returned so far by the calls on the same (n, k)
    nt,        \* a call of prime_factors or is_primitive_root and its result
    fpr,       \* activation of find_primitive_roots: position, p, candidates, result
    dhe,       \* diffie_hellman_exchange: position and locals n, primes, p, roots, g
    params,    \* the DHParameters object
    ex,        \* what perform_key_exchange returned: y1, y2, k1, k2
    ic,        \* simulate_interception: Hari's key, the values computed, the branch
    val,       \* activation of DHParameters.validate: position and result
    called,    \* the arguments is_primitive_root and prime_factors were called with
    cache,     \* the memo of prime_factors, least recently used entry first
    ipr_seen   \* the results is_primitive_root returned, by arguments

mrVars == <<mr, mr_seen>>
dhVars == <<dhe, params, ex, ic>>
logVars == <<called, cache, ipr_seen>>

vars == <<mr, mr_seen, nt, fpr, dhe, params, ex, ic, val, called, cache,
          ipr_seen>>

-----------------------------------------------------------------------------
(* Bounds of the model *)

\* miller_rabin is called with every n in -NegN .. MaxN
NegN == 2
MaxN == 100
\* and with every number of rounds k in 1 .. MaxRounds
MaxRounds == 2
\* prime_factors is called with every n in 1 .. MaxFactorN
MaxFactorN == 210
\* is_primitive_root is called with every modulus p in 2 .. MaxRootP
MaxRootP == 41
\* the exchange is run on every prime up to MaxDHPrime, with every generator
\* and every private key the code accepts
MaxDHPrime == 23
\* find_primitive_roots is called directly with every p in -NegN .. MaxFindP
MaxFindP == 103
\* prime_factors is called with MaxSweep arguments one after the other, more
\* than its memo keeps
MaxSweep == 130
\* the user of diffie_hellman_exchange asks for digit counts that have numbers
\* up to MaxP and chooses primes up to MaxP
MaxP == 23

-----------------------------------------------------------------------------
(* Program constants *)

MIN_DIGITS == 2
MAX_DIGITS == 6
MILLER_RABIN_ROUNDS == 40

\* the fixed list of small primes miller_rabin divides by first
SMALL_PRIMES == <<2, 3, 5, 7, 11, 13, 17, 19, 23, 29, 31, 37>>

-----------------------------------------------------------------------------
(* Arithmetic the code takes from Python *)

Min(x, y) == IF x <= y THEN x ELSE y

\* pow(base, exp, mod): square-and-multiply, every operand reduced modulo mod
RECURSIVE pow(_, _, _)
pow(base, exp, mod) ==
    IF exp = 0 THEN 1 % mod
    ELSE LET half == pow((base * base) % mod, exp \div 2, mod)
         IN  IF exp % 2 = 1 THEN ((base % mod) * half) % mod ELSE half

\* math.gcd for non-negative arguments (Euclid)
RECURSIVE gcd(_, _)
gcd(x, y) == IF y = 0 THEN x ELSE gcd(y, x % y)

-----------------------------------------------------------------------------
(* Reference notions the claims are stated with (not taken from the code) *)

\* n is prime, by trial division
IsPrime(n) == n >= 2 /\ \A q \in 2 .. (n - 1) : n % q # 0

\* base^exp mod m by exp successive multiplications
RECURSIVE NaivePow(_, _, _)
NaivePow(base, exp, m) ==
    IF exp = 0 THEN 1 % m ELSE (base * NaivePow(base, exp - 1, m)) % m

-----------------------------------------------------------------------------
(* The values of the state before anything is called *)

\* no call of miller_rabin in progress
MRIdle ==
    [pc |-> "idle", n |-> 0, k |-> 0, d |-> 0, s |-> 0, i |-> 0, sq |-> 0,
     ret |-> FALSE]

\* no call of prime_factors or is_primitive_root made
NTIdle == [fn |-> "none", g |-> 0, n |-> 0, done |-> FALSE, factors |-> {},
           isroot |-> FALSE, hit |-> FALSE]

\* no call of find_primitive_roots in progress
FPRIdle == [pc |-> "idle", p |-> 0, prime_ok |-> FALSE, candidates |-> <<>>,
            roots |-> <<>>]

\* Python's None in the two private-key fields: a value no key takes
None == 0 - 1

\* lines 52-58: DHParameters(prime, primitive_root), private keys defaulted
DHParameters(prime, primitive_root) ==
    [prime |-> prime, primitive_root |-> primitive_root,
     ram_private |-> None, shyam_private |-> None]

NoParams == DHParameters(0, 0)
NoExchange == [y1 |-> 0, y2 |-> 0, k1 |-> 0, k2 |-> 0]
NoInterception ==
    [h |-> 0, forged_key |-> 0, ram_compromised_secret |-> 0,
     shyam_compromised_secret |-> 0, intercepted_ram_secret |-> 0,
     intercepted_shyam_secret |-> 0, branch |-> "none"]

DHEIdle == [pc |-> "idle", n |-> 0, num |-> 0, primes |-> <<>>, p |-> 0,
            roots |-> <<>>, g |-> 0]

\* no call of DHParameters.validate in progress
ValIdle == [pc |-> "idle", ret |-> FALSE]

\* no call of is_primitive_root or prime_factors made yet
NoCalls == [is_primitive_root |-> {}, prime_factors |-> {}]

DHIdle ==
    /\ dhe = DHEIdle
    /\ params = NoParams

\* a fresh interpreter: nothing called, the memo of prime_factors empty
Fresh ==
    /\ val = ValIdle
    /\ called = NoCalls
    /\ cache = <<>>
    /\ ipr_seen = {}
    /\ ex = NoExchange
    /\ ic = NoInterception

-----------------------------------------------------------------------------
(* miller_rabin(n, k) *)

\* the activation record on entry to miller_rabin(n, k)
miller_rabin_call(n, k) == [MRIdle EXCEPT !.pc = "check", !.n = n, !.k = k]

\* `for p in [2, 3, ..., 37]: if n % p == 0: return n == p`: the index of the first
\* listed prime that divides n, 0 when none does
RECURSIVE FirstSmallDivisor(_, _)
FirstSmallDivisor(n, idx) ==
    IF idx > Len(SMALL_PRIMES) THEN 0
    ELSE IF n % SMALL_PRIMES[idx] = 0 THEN idx
    ELSE FirstSmallDivisor(n, idx + 1)

\* lines 79-85: the early returns, else d, s = n - 1, 0
MR_Check ==
    /\ mr.pc = "check"
    /\ IF mr.n < 2
         THEN mr' = [mr EXCEPT !.pc = "done", !.ret = FALSE]
         ELSE LET idx == FirstSmallDivisor(mr.n, 1)
              IN  IF idx # 0
                    THEN mr' = [mr EXCEPT !.pc = "done",
                                          !.ret = (mr.n = SMALL_PRIMES[idx])]
                    ELSE mr' = [mr EXCEPT !.pc = "decompose",
                                          !.d = mr.n - 1, !.s = 0]
    /\ UNCHANGED <<mr_seen, nt, val, logVars, fpr, dhVars>>

\* lines 86-88: one test of `while d % 2 == 0`, and one iteration when it holds
MR_Decompose ==
    /\ mr.pc = "decompose"
    /\ IF mr.d % 2 = 0
         THEN mr' = [mr EXCEPT !.d = mr.d \div 2, !.s = mr.s + 1]
         ELSE mr' = [mr EXCEPT !.pc = "rounds", !.i = 0]
    /\ UNCHANGED <<mr_seen, nt, val, logVars, fpr, dhVars>>

\* the squaring loop run once too often: range(s) for range(s - 1)
RECURSIVE SquareLoopOneMore(_, _, _, _)
SquareLoopOneMore(x, n, left, count) ==
    IF left + 1 <= 0 THEN <<FALSE, count>>
    ELSE LET x2 == pow(x, 2, n)
         IN  IF x2 = n - 1 THEN <<TRUE, count + 1>>
             ELSE SquareLoopOneMore(x2, n, left - 1, count + 1)

\* lines 95-100: `for __ in range(s - 1)` with its else clause, from x, with
\* `left` iterations left and `count` squarings done: <<broke out, squarings>>
RECURSIVE SquareLoop(_, _, _, _)
SquareLoop(x, n, left, count) ==
    IF left <= 0 THEN <<FALSE, count>>
    ELSE LET x2 == pow(x, 2, n)
         IN  IF x2 = n - 1 THEN <<TRUE, count + 1>>
             ELSE SquareLoop(x2, n, left - 1, count + 1)

\* the round without the test x == n - 1 of line 93
WitnessRoundNoMinusOne(n, d, s, a) ==
    LET x == pow(a, d, n)
    IN  IF x = 1 THEN <<TRUE, 0>> ELSE SquareLoop(x, n, s - 1, 0)

\* lines 92-100: one round with witness a: <<the round passes, squarings>>
WitnessRound(n, d, s, a) ==
    LET x == pow(a, d, n)
    IN  IF x = 1 \/ x = n - 1 THEN <<TRUE, 0>> ELSE SquareLoop(x, n, s - 1, 0)

\* lines 90-100: one iteration of `for _ in range(k)` with the witness a that
\* random.randint(2, n - 2) returns, which raises ValueError on an empty
\* interval; i counts the rounds begun, sq the squarings of the last round
MR_Round ==
    /\ mr.pc = "rounds"
    /\ mr.i < mr.k
    /\ IF mr.n - 2 < 2
         THEN mr' = [mr EXCEPT !.pc = "raised"]
         ELSE \E a \in 2 .. (mr.n - 2) :
                LET r == WitnessRound(mr.n, mr.d, mr.s, a)
                IN  IF r[1]
                      THEN mr' = [mr EXCEPT !.i = mr.i + 1, !.sq = r[2]]
                      ELSE mr' = [mr EXCEPT !.pc = "done", !.ret = FALSE,
                                            !.i = mr.i + 1, !.sq = r[2]]
    /\ UNCHANGED <<mr_seen, nt, val, logVars, fpr, dhVars>>

\* line 101: the rounds are exhausted, return True
MR_Return ==
    /\ mr.pc = "rounds"
    /\ mr.i = mr.k
    /\ mr' = [mr EXCEPT !.pc = "done", !.ret = TRUE]
    /\ UNCHANGED <<mr_seen, nt, val, logVars, fpr, dhVars>>

miller_rabin == MR_Check \/ MR_Decompose \/ MR_Round \/ MR_Return

-----------------------------------------------------------------------------
(* prime_factors(n) and is_primitive_root(g, p) *)

\* `while n % f == 0: n //= f`: n with every factor f divided out
RECURSIVE DivideOut(_, _)
DivideOut(n, f) == IF n % f = 0 THEN DivideOut(n \div f, f) ELSE n

\* the odd divisors tried but the cofactor left after the loop never added
RECURSIVE OddDivisorsNoCofactor(_, _, _)
OddDivisorsNoCofactor(n, i, factors) ==
    IF i * i <= n
      THEN IF n % i = 0
             THEN OddDivisorsNoCofactor(DivideOut(n, i), i + 2, factors \cup {i})
             ELSE OddDivisorsNoCofactor(n, i + 2, factors)
      ELSE factors

\* lines 123-131: `while i * i <= n` from i, then the cofactor when it is > 2
RECURSIVE OddDivisors(_, _, _)
OddDivisors(n, i, factors) ==
    IF i * i <= n
      THEN IF n % i = 0
             THEN OddDivisors(DivideOut(n, i), i + 2, factors \cup {i})
             ELSE OddDivisors(n, i + 2, factors)
      ELSE IF n > 2 THEN factors \cup {n} ELSE factors

\* lines 118-131: the set of factors prime_factors(n) returns, n >= 1
prime_factors(n) ==
    OddDivisors(DivideOut(n, 2), 3, IF n % 2 = 0 THEN {2} ELSE {})

\* the exponent f used where the code uses phi // f
is_primitive_root_exponent_f(g, p) ==
    IF gcd(g, p) # 1 THEN FALSE
    ELSE LET phi == p - 1
             factors == prime_factors(phi)
         IN  \A f \in factors : pow(g, f, p) # 1

\* lines 147-152
is_primitive_root(g, p) ==
    IF gcd(g, p) # 1 THEN FALSE
    ELSE LET phi == p - 1
             factors == prime_factors(phi)
         IN  \A f \in factors : pow(g, phi \div f, p) # 1

-----------------------------------------------------------------------------
(* The memo in front of prime_factors: @lru_cache(maxsize=128)               *)

\* line 117: the number of results the memo keeps
maxsize == 128

\* the place of the entry for n in the memo c, 0 when it has none
CacheIndex(c, n) ==
    IF \E j \in 1 .. Len(c) : c[j].key = n
      THEN CHOOSE j \in 1 .. Len(c) : c[j].key = n
      ELSE 0

\* the memo c without its entry at place j
WithoutEntry(c, j) == SubSeq(c, 1, j - 1) \o SubSeq(c, j + 1, Len(c))

\* a memo that answers a hit with the result of its most recent entry
prime_factors_cached_latest(c, n) ==
    LET j == CacheIndex(c, n)
    IN  IF j # 0
          THEN [ret |-> c[Len(c)].result, hit |-> TRUE,
                cache |-> Append(WithoutEntry(c, j), c[j])]
          ELSE LET result == prime_factors(n)
                   kept == IF Len(c) >= maxsize THEN Tail(c) ELSE c
               IN  [ret |-> result, hit |-> FALSE,
                    cache |-> Append(kept, [key |-> n, result |-> result])]

\* lines 117-118: the call prime_factors(n) with the memo c. A hit returns the
\* stored result and makes the entry the most recent; a miss runs the function,
\* drops the least recently used entry of a full memo and stores the result
prime_factors_cached(c, n) ==
    LET j == CacheIndex(c, n)
    IN  IF j # 0
          THEN [ret |-> c[j].result, hit |-> TRUE,
                cache |-> Append(WithoutEntry(c, j), c[j])]
          ELSE LET result == prime_factors(n)
                   kept == IF Len(c) >= maxsize THEN Tail(c) ELSE c
               IN  [ret |-> result, hit |-> FALSE,
                    cache |-> Append(kept, [key |-> n, result |-> result])]

\* lines 147-152 with the memo c: the result and the memo after the call
is_primitive_root_cached(c, g, p) ==
    IF gcd(g, p) # 1 THEN [ret |-> FALSE, hit |-> FALSE, cache |-> c]
    ELSE LET phi == p - 1
             factors == prime_factors_cached(c, phi)
         IN  [ret |-> \A f \in factors.ret : pow(g, phi \div f, p) # 1,
              hit |-> factors.hit, cache |-> factors.cache]

\* lines 148-151: the arguments is_primitive_root(g, p) calls prime_factors with
prime_factors_args(g, p) == IF gcd(g, p) # 1 THEN {} ELSE {p - 1}

\* the memo after is_primitive_root(g, p) was called for every g of a list:
\* each call that reaches line 151 asks the memo for p - 1, the first of them
\* leaves it as the most recent entry and the later ones find it there
CacheAfter(c, list, p) ==
    IF \E j \in 1 .. Len(list) : prime_factors_args(list[j], p) # {}
      THEN prime_factors_cached(c, p - 1).cache
      ELSE c

-----------------------------------------------------------------------------
(* Specification SpecNT: one call prime_factors(n) or is_primitive_root(g, p) *)

NTInit ==
    /\ mr = MRIdle
    /\ mr_seen = {}
    /\ fpr = FPRIdle
    /\ DHIdle
    /\ Fresh
    /\ \/ \E n \in 1 .. MaxFactorN :
             nt = [NTIdle EXCEPT !.fn = "prime_factors", !.n = n]
       \/ \E p \in 2 .. MaxRootP : \E g \in 1 .. (p - 1) :
             nt = [NTIdle EXCEPT !.fn = "is_primitive_root", !.g = g, !.n = p]

NT_prime_factors ==
    /\ nt.fn = "prime_factors"
    /\ ~nt.done
    /\ nt' = [nt EXCEPT !.done = TRUE, !.factors = prime_factors(nt.n)]
    /\ cache' = prime_factors_cached(cache, nt.n).cache
    /\ called' = [called EXCEPT !.prime_factors = @ \cup {nt.n}]
    /\ UNCHANGED <<mrVars, fpr, dhVars, val, ipr_seen>>

NT_is_primitive_root ==
    /\ nt.fn = "is_primitive_root"
    /\ ~nt.done
    /\ nt' = [nt EXCEPT !.done = TRUE, !.isroot = is_primitive_root(nt.g, nt.n)]
    /\ cache' = is_primitive_root_cached(cache, nt.g, nt.n).cache
    /\ called' = [is_primitive_root |-> called.is_primitive_root \cup
                       {[g |-> nt.g, p |-> nt.n, passed |-> FALSE]},
                  prime_factors |-> called.prime_factors \cup
                       prime_factors_args(nt.g, nt.n)]
    /\ ipr_seen' = ipr_seen \cup
                     {[g |-> nt.g, p |-> nt.n,
                       ret |-> is_primitive_root(nt.g, nt.n)]}
    /\ UNCHANGED <<mrVars, fpr, dhVars, val>>

NTNext == NT_prime_factors \/ NT_is_primitive_root

SpecNT == NTInit /\ [][NTNext]_vars

-----------------------------------------------------------------------------
(* Claims about prime_factors and is_primitive_root, under SpecNT *)

\* the primes that divide n
PrimeDivisors(n) == {q \in 1 .. n : IsPrime(q) /\ n % q = 0}

\* n with every member of the set fs divided out as often as it divides
RECURSIVE DivideOutAll(_, _)
DivideOutAll(n, fs) ==
    IF fs = {} THEN n
    ELSE LET f == CHOOSE x \in fs : TRUE
         IN  DivideOutAll(DivideOut(n, f), fs \ {f})

\* C6: for every n >= 1, prime_factors(n) is exactly the set of the primes that
\* divide n (empty for n = 1), and dividing n by each returned factor until it no
\* longer divides leaves 1.
C6_ExactPrimeDivisors ==
    (nt.fn = "prime_factors" /\ nt.done) =>
        /\ nt.factors = PrimeDivisors(nt.n)
        /\ DivideOutAll(nt.n, nt.factors) = 1
        /\ nt.n = 1 => nt.factors = {}

\* prime_factors returned for a number with a repeated odd factor, a factor 2 and
\* a prime cofactor left after the loop
C6_Witness ==
    /\ nt.fn = "prime_factors"
    /\ nt.done
    /\ nt.n = 2 * 3 * 3 * 11
    /\ nt.factors = {2, 3, 11}

\* the residues the powers g^1 .. g^(p-1) take modulo p
PowersOf(g, p) == {NaivePow(g, e, p) : e \in 1 .. (p - 1)}

\* the multiplicative order of g modulo p, for g prime to p
OrderOf(g, p) ==
    CHOOSE e \in 1 .. (p - 1) :
        /\ NaivePow(g, e, p) = 1
        /\ \A e2 \in 1 .. (e - 1) : NaivePow(g, e2, p) # 1

\* C7: for every prime p and every g in [1, p-1], is_primitive_root(g, p) is true
\* if and only if the order of g modulo p is p - 1, that is, the powers of g cover
\* every nonzero residue; is_primitive_root(5, 23) is true.
C7_PrimitiveRootIffFullOrder ==
    (nt.fn = "is_primitive_root" /\ nt.done /\ IsPrime(nt.n)) =>
        /\ nt.isroot <=> (OrderOf(nt.g, nt.n) = nt.n - 1)
        /\ nt.isroot <=> (PowersOf(nt.g, nt.n) = 1 .. (nt.n - 1))
        /\ (nt.g = 5 /\ nt.n = 23) => nt.isroot

\* is_primitive_root(5, 23) returned True
C7_Witness ==
    /\ nt.fn = "is_primitive_root"
    /\ nt.done
    /\ nt.g = 5
    /\ nt.n = 23
    /\ nt.isroot

-----------------------------------------------------------------------------
(* find_primitive_roots(p) *)

\* list(range(lo, hi))
RangeList(lo, hi) == [j \in 1 .. (hi - lo) |-> lo + j - 1]

\* what random.sample(range(lo, hi), k) can return: the k-long lists of
\* distinct members of lo .. hi - 1
random_sample(lo, hi, k) ==
    {smp \in [1 .. k -> lo .. (hi - 1)] :
        \A j1, j2 \in 1 .. k : j1 # j2 => smp[j1] # smp[j2]}

\* the candidates tested whatever the primality check said
find_primitive_roots_unchecked(p, prime_ok, smp) ==
    LET candidates == RangeList(1, Min(p, 100)) \o smp
    IN  [candidates |-> candidates,
         roots |-> SelectSeq(candidates, LAMBDA g : is_primitive_root(g, p))]

\* the candidates below 100 stopping one short: range(1, min(p, 100) - 1)
find_primitive_roots_short(p, prime_ok, smp) ==
    IF ~prime_ok
      THEN [candidates |-> <<>>, roots |-> <<>>]
      ELSE LET candidates == RangeList(1, Min(p, 100) - 1) \o smp
           IN  [candidates |-> candidates,
                roots |-> SelectSeq(candidates,
                                    LAMBDA g : is_primitive_root(g, p))]

\* lines 168-177, with the value prime_ok of miller_rabin(p) and the list smp
\* random.sample returned (empty unless p > 100): the candidates generated and
\* the list returned
find_primitive_roots(p, prime_ok, smp) ==
    IF ~prime_ok
      THEN [candidates |-> <<>>, roots |-> <<>>]
      ELSE LET candidates == RangeList(1, Min(p, 100)) \o smp
           IN  [candidates |-> candidates,
                roots |-> SelectSeq(candidates,
                                    LAMBDA g : is_primitive_root(g, p))]

\* line 169: entry to find_primitive_roots(p), which calls miller_rabin(p)
FPR_Call(p) ==
    /\ fpr' = [FPRIdle EXCEPT !.pc = "primality", !.p = p]
    /\ mr' = miller_rabin_call(p, MILLER_RABIN_ROUNDS)

\* lines 169-177: miller_rabin(p) has returned; the sample is drawn when
\* p > 100, the candidates are tested, the list is returned
FPR_Return ==
    /\ fpr.pc = "primality"
    /\ mr.pc = "done"
    /\ \E smp \in (IF mr.ret /\ fpr.p > 100
                     THEN random_sample(100, fpr.p, Min(100, fpr.p - 100))
                     ELSE {<<>>}) :
         LET r == find_primitive_roots(fpr.p, mr.ret, smp)
         IN  fpr' = [fpr EXCEPT !.pc = "done", !.prime_ok = mr.ret,
                                !.candidates = r.candidates, !.roots = r.roots]
    /\ LET tested == 1 .. Len(fpr'.candidates)
       IN  /\ called' =
                [is_primitive_root |-> called.is_primitive_root \cup
                     {[g |-> fpr'.candidates[j], p |-> fpr.p,
                       passed |-> mr.ret] : j \in tested},
                 prime_factors |-> called.prime_factors \cup
                     UNION {prime_factors_args(fpr'.candidates[j], fpr.p) :
                                j \in tested}]
           /\ cache' = CacheAfter(cache, fpr'.candidates, fpr.p)
           /\ ipr_seen' = ipr_seen \cup
                {[g |-> fpr'.candidates[j], p |-> fpr.p,
                  ret |-> \E i \in 1 .. Len(fpr'.roots) :
                             fpr'.roots[i] = fpr'.candidates[j]] : j \in tested}
    /\ mr' = MRIdle
    /\ UNCHANGED <<mr_seen, nt, val, dhVars>>

-----------------------------------------------------------------------------
(* DHParameters.validate() *)

\* both operands evaluated, as `&` would
validate_evaluates_root_always(prime_ok) == TRUE

\* lines 61-62: `miller_rabin(self.prime) and is_primitive_root(...)` calls
\* is_primitive_root only when miller_rabin returned True
validate_evaluates_root(prime_ok) == prime_ok

\* line 61: entry to ps.validate(), which calls miller_rabin(ps.prime)
VAL_Call(ps) ==
    /\ params = ps
    /\ val = [ValIdle EXCEPT !.pc = "primality"]
    /\ mr = miller_rabin_call(ps.prime, MILLER_RABIN_ROUNDS)

\* lines 61-62: miller_rabin(self.prime) has returned; False is the result of
\* validate, or is_primitive_root(self.primitive_root, self.prime) is called
VAL_Primality ==
    /\ val.pc = "primality"
    /\ mr.pc = "done"
    /\ IF validate_evaluates_root(mr.ret)
         THEN /\ val' = [val EXCEPT !.pc = "is_primitive_root"]
              /\ called' = [called EXCEPT !.is_primitive_root = @ \cup
                              {[g |-> params.primitive_root, p |-> params.prime,
                                passed |-> mr.ret]}]
         ELSE /\ val' = [val EXCEPT !.pc = "done", !.ret = FALSE]
              /\ UNCHANGED called
    /\ mr' = MRIdle
    /\ UNCHANGED <<mr_seen, nt, fpr, dhVars, cache, ipr_seen>>

\* lines 148-152 and 62: is_primitive_root runs and its result is the result
\* of validate; prime_factors(0) does not return (`while n % 2 == 0`)
VAL_Root ==
    /\ val.pc = "is_primitive_root"
    /\ 0 \notin prime_factors_args(params.primitive_root, params.prime)
    /\ LET r == is_primitive_root_cached(cache, params.primitive_root,
                                         params.prime)
       IN  /\ val' = [val EXCEPT !.pc = "done", !.ret = r.ret]
           /\ cache' = r.cache
           /\ ipr_seen' = ipr_seen \cup
                  {[g |-> params.primitive_root, p |-> params.prime,
                    ret |-> r.ret]}
    /\ called' = [called EXCEPT !.prime_factors = @ \cup
                    prime_factors_args(params.primitive_root, params.prime)]
    /\ UNCHANGED <<mrVars, nt, fpr, dhVars>>

-----------------------------------------------------------------------------
(* DHParameters, perform_key_exchange, simulate_interception *)

\* lines 215-223: the values get_valid_input(prompt, min_val, max_val) can return;
\* any other input is asked for again
get_valid_input(min_val, max_val) == min_val .. max_val

\* Shyam's secret computed from his own public key y2
perform_key_exchange_own_key(ps, a, b) ==
    LET y1 == pow(ps.primitive_root, a, ps.prime)
        y2 == pow(ps.primitive_root, b, ps.prime)
        k1 == pow(y2, a, ps.prime)
        k2 == pow(y2, b, ps.prime)
    IN  [params |-> [ps EXCEPT !.ram_private = a, !.shyam_private = b],
         ret |-> [y1 |-> y1, y2 |-> y2, k1 |-> k1, k2 |-> k2]]

\* the two keys kept in local variables, the fields of params left as they were
perform_key_exchange_keys_local(ps, a, b) ==
    LET y1 == pow(ps.primitive_root, a, ps.prime)
        y2 == pow(ps.primitive_root, b, ps.prime)
        k1 == pow(y2, a, ps.prime)
        k2 == pow(y1, b, ps.prime)
    IN  [params |-> ps,
         ret |-> [y1 |-> y1, y2 |-> y2, k1 |-> k1, k2 |-> k2]]

\* the public keys y1, y2 stored in the fields of the private keys
perform_key_exchange_public_stored(ps, a, b) ==
    LET y1 == pow(ps.primitive_root, a, ps.prime)
        y2 == pow(ps.primitive_root, b, ps.prime)
        k1 == pow(y2, a, ps.prime)
        k2 == pow(y1, b, ps.prime)
    IN  [params |-> [ps EXCEPT !.ram_private = y1, !.shyam_private = y2],
         ret |-> [y1 |-> y1, y2 |-> y2, k1 |-> k1, k2 |-> k2]]

\* lines 281-292, with the two keys a, b that get_valid_input returned: the
\* parameters as the call leaves them and the tuple it returns
perform_key_exchange(ps, a, b) ==
    LET y1 == pow(ps.primitive_root, a, ps.prime)
        y2 == pow(ps.primitive_root, b, ps.prime)
        k1 == pow(y2, a, ps.prime)
        k2 == pow(y1, b, ps.prime)
    IN  [params |-> [ps EXCEPT !.ram_private = a, !.shyam_private = b],
         ret |-> [y1 |-> y1, y2 |-> y2, k1 |-> k1, k2 |-> k2]]

\* lines 330-348: the branch the verification takes
InterceptionBranch(rc, sc, ir, is) ==
    IF rc = sc
      THEN IF rc = sc /\ sc = ir /\ ir = is
             THEN "success"
             ELSE "something_is_wrong"
      ELSE "may_fail"

\* both of Hari's secrets computed from Ram's public key y1
simulate_interception_y1_twice(ps, y1, y2, h) ==
    LET forged == pow(ps.primitive_root, h, ps.prime)
        rc == pow(forged, ps.ram_private, ps.prime)
        sc == pow(forged, ps.shyam_private, ps.prime)
        ir == pow(y1, h, ps.prime)
        is == pow(y1, h, ps.prime)
    IN  [h |-> h, forged_key |-> forged, ram_compromised_secret |-> rc,
         shyam_compromised_secret |-> sc, intercepted_ram_secret |-> ir,
         intercepted_shyam_secret |-> is,
         branch |-> InterceptionBranch(rc, sc, ir, is)]

\* the forged key computed as h^g mod p
simulate_interception_swapped(ps, y1, y2, h) ==
    LET forged == pow(h, ps.primitive_root, ps.prime)
        rc == pow(forged, ps.ram_private, ps.prime)
        sc == pow(forged, ps.shyam_private, ps.prime)
        ir == pow(y1, h, ps.prime)
        is == pow(y2, h, ps.prime)
    IN  [h |-> h, forged_key |-> forged, ram_compromised_secret |-> rc,
         shyam_compromised_secret |-> sc, intercepted_ram_secret |-> ir,
         intercepted_shyam_secret |-> is,
         branch |-> InterceptionBranch(rc, sc, ir, is)]

\* the forged key raised to ram_private + 1 on Ram's side
simulate_interception_ram_off_by_one(ps, y1, y2, h) ==
    LET forged == pow(ps.primitive_root, h, ps.prime)
        rc == pow(forged, ps.ram_private + 1, ps.prime)
        sc == pow(forged, ps.shyam_private, ps.prime)
        ir == pow(y1, h, ps.prime)
        is == pow(y2, h, ps.prime)
    IN  [h |-> h, forged_key |-> forged, ram_compromised_secret |-> rc,
         shyam_compromised_secret |-> sc, intercepted_ram_secret |-> ir,
         intercepted_shyam_secret |-> is,
         branch |-> InterceptionBranch(rc, sc, ir, is)]

\* lines 315-348, with the key h that get_valid_input returned
simulate_interception(ps, y1, y2, h) ==
    LET forged == pow(ps.primitive_root, h, ps.prime)
        rc == pow(forged, ps.ram_private, ps.prime)
        sc == pow(forged, ps.shyam_private, ps.prime)
        ir == pow(y1, h, ps.prime)
        is == pow(y2, h, ps.prime)
    IN  [h |-> h, forged_key |-> forged, ram_compromised_secret |-> rc,
         shyam_compromised_secret |-> sc, intercepted_ram_secret |-> ir,
         intercepted_shyam_secret |-> is,
         branch |-> InterceptionBranch(rc, sc, ir, is)]

-----------------------------------------------------------------------------
(* diffie_hellman_exchange up to DHParameters(p, g) *)

\* lines 240-241
min_val(n) == 10 ^ (n - 1)
max_val(n) == 10 ^ n - 1

\* the slice [:10]
FirstTen(list) == SubSeq(list, 1, Min(10, Len(list)))

\* lines 500-501 and 240-244: the digit count is read, get_prime_candidate(n)
\* starts the comprehension over range(min_val, max_val + 1) with miller_rabin
DHE_Digits ==
    /\ dhe.pc = "digits"
    /\ \E n \in get_valid_input(MIN_DIGITS, MAX_DIGITS) :
         /\ min_val(n) <= MaxP
         /\ dhe' = [dhe EXCEPT !.pc = "scan", !.n = n, !.num = min_val(n)]
         /\ mr' = miller_rabin_call(min_val(n), MILLER_RABIN_ROUNDS)
    /\ UNCHANGED <<mr_seen, nt, val, logVars, fpr, params, ex, ic>>

\* line 244: miller_rabin(num) has returned; num is kept when it is True, the
\* comprehension goes on to the next num or ends and the list is cut to ten
GPC_Scan ==
    /\ dhe.pc = "scan"
    /\ mr.pc = "done"
    /\ LET found == IF mr.ret THEN Append(dhe.primes, dhe.num) ELSE dhe.primes
       IN  IF dhe.num + 1 <= max_val(dhe.n)
             THEN /\ dhe' = [dhe EXCEPT !.primes = found, !.num = dhe.num + 1]
                  /\ mr' = miller_rabin_call(dhe.num + 1, MILLER_RABIN_ROUNDS)
             ELSE /\ dhe' = [dhe EXCEPT !.pc = "choose_prime", !.num = 0,
                                        !.primes = FirstTen(found)]
                  /\ mr' = MRIdle
    /\ UNCHANGED <<mr_seen, nt, val, logVars, fpr, params, ex, ic>>

\* lines 253-255 and 504: the input is the number of a sample prime, which
\* get_prime_candidate returns; find_primitive_roots(p) is called
GPC_ChooseSample ==
    /\ dhe.pc = "choose_prime"
    /\ \E choice \in 1 .. Len(dhe.primes) :
         /\ dhe.primes[choice] <= MaxP
         /\ dhe' = [dhe EXCEPT !.pc = "find_roots", !.p = dhe.primes[choice]]
         /\ FPR_Call(dhe.primes[choice])
    /\ UNCHANGED <<mr_seen, nt, val, logVars, params, ex, ic>>

\* lines 253-261: the input is a number of n digits that is not the number of
\* a sample prime; miller_rabin(p) is called on it
GPC_ChooseCustom ==
    /\ dhe.pc = "choose_prime"
    /\ \E choice \in 1 .. MaxP :
         /\ ~(1 <= choice /\ choice <= Len(dhe.primes))
         /\ min_val(dhe.n) <= choice /\ choice <= max_val(dhe.n)
         /\ dhe' = [dhe EXCEPT !.pc = "custom", !.num = choice]
         /\ mr' = miller_rabin_call(choice, MILLER_RABIN_ROUNDS)
    /\ UNCHANGED <<mr_seen, nt, val, logVars, fpr, params, ex, ic>>

\* lines 261-263 and 504: miller_rabin(p) has returned; p is returned and
\* find_primitive_roots(p) called, or 'Not prime. Try again.'
GPC_CustomReturn ==
    /\ dhe.pc = "custom"
    /\ mr.pc = "done"
    /\ IF mr.ret
         THEN /\ dhe' = [dhe EXCEPT !.pc = "find_roots", !.p = dhe.num, !.num = 0]
              /\ FPR_Call(dhe.num)
         ELSE /\ dhe' = [dhe EXCEPT !.pc = "choose_prime", !.num = 0]
              /\ mr' = MRIdle
              /\ UNCHANGED fpr
    /\ UNCHANGED <<mr_seen, nt, val, logVars, params, ex, ic>>

\* lines 504-507: find_primitive_roots(p) has returned; without roots the
\* function prints 'No primitive roots found' and returns
DHE_Roots ==
    /\ dhe.pc = "find_roots"
    /\ fpr.pc = "done"
    /\ dhe' = [dhe EXCEPT !.roots = fpr.roots,
                          !.pc = IF fpr.roots = <<>> THEN "no_roots"
                                                     ELSE "choose_root"]
    /\ fpr' = FPRIdle
    /\ UNCHANGED <<mrVars, nt, val, logVars, params, ex, ic>>

\* lines 509-511 and 188-195: get_primitive_root returns a choice that is in
\* roots; params = DHParameters(p, g)
DHE_ChooseRoot ==
    /\ dhe.pc = "choose_root"
    /\ \E choice \in 1 .. dhe.p :
         /\ \E j \in 1 .. Len(dhe.roots) : dhe.roots[j] = choice
         /\ dhe' = [dhe EXCEPT !.pc = "exchange", !.g = choice]
         /\ params' = DHParameters(dhe.p, choice)
    /\ UNCHANGED <<mrVars, nt, val, logVars, fpr, ex, ic>>

\* lines 514-539: perform_key_exchange(params), then the comparison k1 == k2
DHE_KeyExchange ==
    /\ dhe.pc = "exchange"
    /\ \E a \in get_valid_input(1, params.prime - 2) :
       \E b \in get_valid_input(1, params.prime - 2) :
         LET r == perform_key_exchange(params, a, b)
         IN  /\ params' = r.params
             /\ ex' = r.ret
             /\ dhe' = [dhe EXCEPT !.pc = IF r.ret.k1 = r.ret.k2
                                            THEN "ask" ELSE "failed"]
    /\ UNCHANGED <<mrVars, nt, val, logVars, fpr, ic>>

\* lines 529-532: the answer 'y', then simulate_interception(params, y1, y2);
\* lines 309-310: ValueError when a private key is None
DHE_Intercept ==
    /\ dhe.pc = "ask"
    /\ IF params.ram_private = None \/ params.shyam_private = None
         THEN /\ ic' = [ic EXCEPT !.branch = "ValueError"]
              /\ dhe' = [dhe EXCEPT !.pc = "raised"]
         ELSE /\ \E h \in get_valid_input(1, params.prime - 2) :
                    ic' = simulate_interception(params, ex.y1, ex.y2, h)
              /\ dhe' = [dhe EXCEPT !.pc = "intercepted"]
    /\ UNCHANGED <<mrVars, nt, val, logVars, fpr, params, ex>>

\* lines 533-535: the answer 'n'
DHE_NoIntercept ==
    /\ dhe.pc = "ask"
    /\ dhe' = [dhe EXCEPT !.pc = "ended"]
    /\ UNCHANGED <<mrVars, nt, val, logVars, fpr, params, ex, ic>>

-----------------------------------------------------------------------------
(* Specification SpecDH: valid parameters, the exchange, the interception *)

\* lines 79-83: miller_rabin(n) is True by the return of line 83, which no
\* witness has a part in: n is the first of SMALL_PRIMES that divides it
SmallPrimeAccepted(n) ==
    /\ n >= 2
    /\ LET idx == FirstSmallDivisor(n, 1)
       IN  idx # 0 /\ n = SMALL_PRIMES[idx]

\* lines 60-62 and 511: a DHParameters object for which validate() holds, its
\* prime one of SMALL_PRIMES
DHInit ==
    /\ mr = MRIdle
    /\ mr_seen = {}
    /\ nt = NTIdle
    /\ fpr = FPRIdle
    /\ ex = NoExchange
    /\ ic = NoInterception
    /\ Fresh
    /\ \E p \in 2 .. MaxDHPrime : \E g \in 1 .. (p - 1) :
         /\ SmallPrimeAccepted(p)
         /\ is_primitive_root(g, p)
         /\ params = DHParameters(p, g)
         /\ dhe = [DHEIdle EXCEPT !.pc = "exchange", !.p = p, !.g = g]

DHNext == DHE_KeyExchange \/ DHE_Intercept \/ DHE_NoIntercept

SpecDH == DHInit /\ [][DHNext]_vars

-----------------------------------------------------------------------------
(* Specification Spec: the notebook's entry points diffie_hellman_exchange()   *)
(* and find_primitive_roots(p)                                               *)

Init ==
    /\ mr_seen = {}
    /\ nt = NTIdle
    /\ ex = NoExchange
    /\ ic = NoInterception
    /\ called = NoCalls
    /\ cache = <<>>
    /\ ipr_seen = {}
    /\ \/ /\ dhe = [DHEIdle EXCEPT !.pc = "digits"]
          /\ fpr = FPRIdle
          /\ mr = MRIdle
          /\ params = NoParams
          /\ val = ValIdle
       \/ /\ dhe = DHEIdle
          /\ params = NoParams
          /\ val = ValIdle
          /\ \E p \in (0 - NegN) .. MaxFindP :
               /\ fpr = [FPRIdle EXCEPT !.pc = "primality", !.p = p]
               /\ mr = miller_rabin_call(p, MILLER_RABIN_ROUNDS)
       \/ /\ dhe = DHEIdle
          /\ fpr = FPRIdle
          /\ \E prime \in (0 - NegN) .. MaxP : \E primitive_root \in 0 .. MaxP :
               VAL_Call(DHParameters(prime, primitive_root))

Next ==
    \/ MR_Check \/ MR_Decompose \/ MR_Round \/ MR_Return
    \/ FPR_Return
    \/ VAL_Primality \/ VAL_Root
    \/ DHE_Digits \/ GPC_Scan \/ GPC_ChooseSample \/ GPC_ChooseCustom
    \/ GPC_CustomReturn \/ DHE_Roots \/ DHE_ChooseRoot
    \/ DHE_KeyExchange \/ DHE_Intercept \/ DHE_NoIntercept

Spec == Init /\ [][Next]_vars

-----------------------------------------------------------------------------
(* Claims about find_primitive_roots and the orchestrator, under Spec *)

\* the primitive roots of p: the g whose powers cover every nonzero residue
PrimitiveRootsOf(p) == {g \in 1 .. (p - 1) : PowersOf(g, p) = 1 .. (p - 1)}

\* the list is strictly ascending
Ascending(list) == \A j \in 1 .. (Len(list) - 1) : list[j] < list[j + 1]

\* the members of the list
Members(list) == {list[j] : j \in 1 .. Len(list)}

\* C8: for every prime p below 100, find_primitive_roots(p) returns, in ascending
\* order and without raising, exactly the primitive roots of p in [1, p-1]:
\* [5,7,10,11,14,15,17,19,20,21] for 23, [1] for 2 and [2] for 3.
C8_AllRootsBelow100 ==
    /\ mr.pc # "raised"
    /\ (fpr.pc = "done" /\ IsPrime(fpr.p) /\ fpr.p < 100) =>
          /\ Ascending(fpr.roots)
          /\ Members(fpr.roots) = PrimitiveRootsOf(fpr.p)
          /\ fpr.p = 23 => fpr.roots = <<5, 7, 10, 11, 14, 15, 17, 19, 20, 21>>
          /\ fpr.p = 2 => fpr.roots = <<1>>
          /\ fpr.p = 3 => fpr.roots = <<2>>

\* find_primitive_roots(97) has returned its 32 roots, after the random rounds
\* of miller_rabin(97)
C8_Witness ==
    /\ fpr.pc = "done"
    /\ fpr.p = 97
    /\ Len(fpr.roots) = 32
    /\ fpr.roots[1] = 5

\* p has a proper divisor among 2 .. 37
HasSmallProperDivisor(p) == \E q \in 2 .. 37 : q < p /\ p % q = 0

-----------------------------------------------------------------------------
(* Claims about the exchange and the interception, under SpecDH *)

\* the exchange has run
Exchanged == dhe.pc \in {"ask", "failed", "intercepted", "ended", "raised"}

\* C1: for every prime p, primitive root g and private keys a, b in [1, p-2] the
\* exchange gives publicA = g^a, publicB = g^b, secretA = publicB^a and
\* secretB = publicA^b modulo p with secretA = secretB, and the branch
\* 'Key exchange failed!' is never taken.
C1_SharedSecretAgrees ==
    Exchanged =>
        /\ params.ram_private \in 1 .. (params.prime - 2)
        /\ params.shyam_private \in 1 .. (params.prime - 2)
        /\ ex.y1 = NaivePow(params.primitive_root, params.ram_private, params.prime)
        /\ ex.y2 = NaivePow(params.primitive_root, params.shyam_private, params.prime)
        /\ ex.k1 = NaivePow(ex.y2, params.ram_private, params.prime)
        /\ ex.k2 = NaivePow(ex.y1, params.shyam_private, params.prime)
        /\ ex.k1 = ex.k2
        /\ dhe.pc # "failed"

\* the exchange of the recorded run: p = 23, g = 5, a = 4, b = 3 gives the
\* public keys 4 and 10 and the secret 18 on both sides
C1_Witness ==
    /\ dhe.pc = "ask"
    /\ params = [prime |-> 23, primitive_root |-> 5, ram_private |-> 4,
                 shyam_private |-> 3]
    /\ ex = [y1 |-> 4, y2 |-> 10, k1 |-> 18, k2 |-> 18]

\* C2: with y1, y2 the public keys of the exchange, for every attacker key h in
\* [1, p-2] Hari's view of Ram's secret (y1^h) equals Ram's compromised secret
\* (forged^a) and his view of Shyam's (y2^h) equals Shyam's (forged^b), so the
\* branch 'Something is wrong!' is never reached.
C2_AttackerViewsAgree ==
    dhe.pc = "intercepted" =>
        /\ ic.intercepted_ram_secret = ic.ram_compromised_secret
        /\ ic.intercepted_shyam_secret = ic.shyam_compromised_secret
        /\ ic.branch # "something_is_wrong"

\* an interception in which the two victims agree (on a value other than 1)
\* and Hari's two views agree with them
C2_Witness ==
    /\ dhe.pc = "intercepted"
    /\ params.ram_private # params.shyam_private
    /\ ic.ram_compromised_secret = ic.shyam_compromised_secret
    /\ ic.ram_compromised_secret > 1
    /\ ic.intercepted_ram_secret = ic.ram_compromised_secret
    /\ ic.intercepted_shyam_secret = ic.shyam_compromised_secret

\* the four secrets of an interception are one value
AllFourEqual ==
    /\ ic.ram_compromised_secret = ic.shyam_compromised_secret
    /\ ic.ram_compromised_secret = ic.intercepted_ram_secret
    /\ ic.ram_compromised_secret = ic.intercepted_shyam_secret

\* C3: simulate_interception computes forged = g^h, compromisedA = forged^a and
\* compromisedB = forged^b modulo p, takes the fully-successful branch exactly
\* when the four secrets are equal and the detectable-mismatch branch exactly
\* when compromisedA # compromisedB; p=23, g=5, a=4, b=3, h=3 gives forged 10,
\* secrets 18 and 11 and a mismatch, p=23, g=5, a=4, b=2, h=11 gives forged 22,
\* all four values 1 and a fully successful attack.
C3_InterceptionClassified ==
    dhe.pc = "intercepted" =>
        /\ ic.forged_key = NaivePow(params.primitive_root, ic.h, params.prime)
        /\ ic.ram_compromised_secret =
              NaivePow(ic.forged_key, params.ram_private, params.prime)
        /\ ic.shyam_compromised_secret =
              NaivePow(ic.forged_key, params.shyam_private, params.prime)
        /\ ic.branch = "success" <=> AllFourEqual
        /\ ic.branch = "may_fail" <=>
              ic.ram_compromised_secret # ic.shyam_compromised_secret
        /\ (params = [prime |-> 23, primitive_root |-> 5, ram_private |-> 4,
                      shyam_private |-> 3] /\ ic.h = 3) =>
              ic = [h |-> 3, forged_key |-> 10, ram_compromised_secret |-> 18,
                    shyam_compromised_secret |-> 11, intercepted_ram_secret |-> 18,
                    intercepted_shyam_secret |-> 11, branch |-> "may_fail"]
        /\ (params = [prime |-> 23, primitive_root |-> 5, ram_private |-> 4,
                      shyam_private |-> 2] /\ ic.h = 11) =>
              ic = [h |-> 11, forged_key |-> 22, ram_compromised_secret |-> 1,
                    shyam_compromised_secret |-> 1, intercepted_ram_secret |-> 1,
                    intercepted_shyam_secret |-> 1, branch |-> "success"]

\* the second example has run: p = 23, g = 5, a = 4, b = 2, h = 11, success
C3_Witness ==
    /\ dhe.pc = "intercepted"
    /\ params = [prime |-> 23, primitive_root |-> 5, ram_private |-> 4,
                 shyam_private |-> 2]
    /\ ic.h = 11
    /\ ic.forged_key = 22
    /\ ic.branch = "success"

\* C14: for every prime p, primitive root g and keys a, b, h in [1, p-2],
\* simulate_interception takes the branch 'attack succeeds' exactly when
\* h * (a - b) is divisible by p - 1 and the branch 'different shared secrets'
\* otherwise; with a = b it always takes 'attack succeeds'.
C14_SuccessIffDivisible ==
    dhe.pc = "intercepted" =>
        LET a == params.ram_private
            b == params.shyam_private
            divisible == (ic.h * (a - b)) % (params.prime - 1) = 0
        IN  /\ ic.branch = (IF divisible THEN "success" ELSE "may_fail")
            /\ (ic.branch = "success") =
                  (ic.ram_compromised_secret = ic.shyam_compromised_secret)
            /\ a = b => ic.branch = "success"

\* the attack has succeeded between different private keys: p = 7, h = 3 and
\* a - b = 2, with 3 * 2 = p - 1
C14_Witness ==
    /\ dhe.pc = "intercepted"
    /\ ic.branch = "success"
    /\ params.prime = 7
    /\ ic.h = 3
    /\ params.ram_private - params.shyam_private = 2

-----------------------------------------------------------------------------
(* Claims about the calls made by find_primitive_roots, validate and the     *)
(* orchestrator, under Spec                                                  *)

\* C11: every call of is_primitive_root made by find_primitive_roots, by
\* DHParameters.validate or through the orchestrator has a modulus p >= 2 on
\* which miller_rabin had just returned True, and every call of prime_factors
\* has an argument n >= 1, so that none is the call prime_factors(0) that does
\* not return.
C11_FactorizerArgumentPositive ==
    /\ \A c \in called.is_primitive_root : c.passed /\ c.p >= 2
    /\ \A n \in called.prime_factors : n >= 1
    /\ val.pc = "is_primitive_root" =>
          \A n \in prime_factors_args(params.primitive_root, params.prime) :
              n >= 1

\* validate() of DHParameters(2, 1) has called is_primitive_root(1, 2), which
\* called prime_factors(1), and has returned True
C11_Witness ==
    /\ val.pc = "done"
    /\ val.ret
    /\ params.prime = 2
    /\ [g |-> 1, p |-> 2, passed |-> TRUE] \in called.is_primitive_root
    /\ called.prime_factors = {1}

\* C13: the two private keys of the DHParameters object are None from its
\* construction until perform_key_exchange runs; perform_key_exchange sets
\* each of them to a value in [1, prime - 2] and leaves prime and
\* primitive_root as they were; simulate_interception leaves the four fields
\* as they were.
C13_ParamsLifecycle ==
    /\ [](dhe.pc = "exchange" =>
              /\ params.prime = dhe.p
              /\ params.primitive_root = dhe.g
              /\ params.ram_private = None
              /\ params.shyam_private = None)
    /\ [][dhe.pc = "exchange" =>
              /\ params'.ram_private \in 1 .. (params.prime - 2)
              /\ params'.shyam_private \in 1 .. (params.prime - 2)
              /\ params'.prime = params.prime
              /\ params'.primitive_root = params.primitive_root]_vars
    /\ [][dhe.pc = "ask" => params' = params]_vars

\* simulate_interception has run on an object made from the chosen p and g,
\* whose private keys perform_key_exchange had set to two different values
C13_Witness ==
    /\ dhe.pc = "intercepted"
    /\ ic.branch # "none"
    /\ params.prime = dhe.p
    /\ params.primitive_root = dhe.g
    /\ params.ram_private \in 1 .. (params.prime - 2)
    /\ params.shyam_private \in 1 .. (params.prime - 2)
    /\ params.ram_private # params.shyam_private

\* the step of diffie_hellman_exchange a position belongs to: 1 prime
\* selection, 2 primitive-root search, 3 root selection, 4 key exchange,
\* 5 the question about the interception, 6 the end; 0 when it is not running
StepOf(pc) ==
    CASE pc \in {"digits", "scan", "choose_prime", "custom"} -> 1
      [] pc = "find_roots" -> 2
      [] pc \in {"choose_root", "no_roots"} -> 3
      [] pc = "exchange" -> 4
      [] pc \in {"ask", "failed"} -> 5
      [] pc \in {"intercepted", "ended", "raised"} -> 6
      [] OTHER -> 0

\* C15: in every run of diffie_hellman_exchange the steps come in the order
\* prime selection, primitive-root search, root selection, key exchange,
\* optional interception; the root selected is a member of the list
\* find_primitive_roots returned; simulate_interception is called at most
\* once, and only after perform_key_exchange has set both private keys and the
\* two secrets were equal, so that it never raises its ValueError.
C15_OrderedRun ==
    /\ [][StepOf(dhe'.pc) \in {StepOf(dhe.pc), StepOf(dhe.pc) + 1}]_vars
    /\ [](StepOf(dhe.pc) >= 4 =>
              /\ dhe.g \in Members(dhe.roots)
              /\ params.primitive_root = dhe.g
              /\ params.prime = dhe.p)
    /\ [](ic.branch # "none" =>
              /\ dhe.pc = "intercepted"
              /\ params.ram_private # None
              /\ params.shyam_private # None
              /\ ex.k1 = ex.k2)
    /\ [][ic.branch # "none" => ic' = ic]_vars
    /\ [](dhe.pc # "raised" /\ ic.branch # "ValueError")

\* a run that went through every step: two digits, ten sample primes, a root
\* of the list, the exchange, and an interception that Ram and Shyam could
\* notice
C15_Witness ==
    /\ dhe.pc = "intercepted"
    /\ dhe.n = 2
    /\ Len(dhe.primes) = 10
    /\ dhe.g \in Members(dhe.roots)
    /\ ex.k1 = ex.k2
    /\ ic.branch = "may_fail"

-----------------------------------------------------------------------------
(* Specification SpecMR: repeated calls miller_rabin(n, k) on one (n, k) *)

\* the smallest composite number none of SMALL_PRIMES divides
SmallestUnsieved == 41 * 41

MRInputs == ((0 - NegN) .. MaxN) \cup {SmallestUnsieved}

MRInit ==
    /\ \E n \in MRInputs, k \in 1 .. MaxRounds : mr = miller_rabin_call(n, k)
    /\ mr_seen = {}
    /\ nt = NTIdle
    /\ fpr = FPRIdle
    /\ DHIdle
    /\ Fresh

\* the caller takes the result and calls miller_rabin again on the same arguments
MR_CallAgain ==
    /\ mr.pc = "done"
    /\ mr_seen' = mr_seen \cup {mr.ret}
    /\ mr' = miller_rabin_call(mr.n, mr.k)
    /\ UNCHANGED <<nt, val, logVars, fpr, dhVars>>

MRNext == MR_Check \/ MR_Decompose \/ MR_Round \/ MR_Return \/ MR_CallAgain

SpecMR == MRInit /\ [][MRNext]_vars

-----------------------------------------------------------------------------
(* Claims about miller_rabin, under SpecMR *)

\* C4: a prime is never reported composite: for every prime n, every number of
\* rounds and every sequence of witnesses, miller_rabin returns True.
C4_PrimeNeverComposite ==
    (mr.pc = "done" /\ IsPrime(mr.n)) => mr.ret = TRUE

\* a prime above the small primes went through all its rounds, the last one with
\* squarings, and was returned as prime
C4_Witness ==
    /\ mr.pc = "done"
    /\ IsPrime(mr.n)
    /\ mr.n > 37
    /\ mr.k > 1
    /\ mr.i = mr.k
    /\ mr.sq > 0
    /\ mr.ret = TRUE

\* C5: the result does not depend on the witnesses drawn: a call returns what
\* every earlier call on the same n and the same number of rounds returned.
C5_SameResultEveryRun ==
    (mr.pc = "done" /\ mr_seen # {}) => mr_seen = {mr.ret}

\* the states of a call in which nothing can go wrong: no exception, a step to
\* take until the call has returned, a non-empty witness interval, an odd d with
\* n - 1 = d * 2^s once the decomposition is over, and bounded loop counters
C10_Safe ==
    /\ mr.pc \in {"check", "decompose", "rounds", "done"}
    /\ mr.ret \in BOOLEAN
    /\ mr.pc # "done" => ENABLED miller_rabin
    /\ mr.pc = "rounds" => (mr.n >= 41 /\ 2 <= mr.n - 2)
    /\ (mr.pc = "rounds" \/ (mr.pc = "done" /\ mr.i > 0)) =>
          (mr.d % 2 = 1 /\ mr.d * (2 ^ mr.s) = mr.n - 1)
    /\ mr.i <= mr.k
    /\ mr.sq <= (IF mr.s >= 1 THEN mr.s - 1 ELSE 0)

\* a bound on the steps a call has left: the halvings of d, then the rounds
C10_StepsLeft(m) ==
    CASE m.pc = "check" -> m.k + (IF m.n > 0 THEN m.n ELSE 0) + 3
      [] m.pc = "decompose" -> m.k + m.d + 2
      [] m.pc = "rounds" -> (m.k - m.i) + 1
      [] OTHER -> 0

\* C10: miller_rabin has no fatal error path and every call ends with a boolean,
\* for every integer n and every rounds >= 1: the witness interval is non-empty
\* when a witness is drawn (n >= 41), the decomposition n - 1 = d * 2^s ends, at
\* most `rounds` rounds of at most s - 1 squarings are run.  Every step of a call
\* lowers the bound on the steps left, which never goes below zero.
C10_AlwaysTerminates ==
    /\ []C10_Safe
    /\ [][mr.pc # "done" =>
            (C10_StepsLeft(mr') < C10_StepsLeft(mr) /\ C10_StepsLeft(mr') >= 0)]_vars

\* a call ran all its rounds, the last of them with all its s - 1 squarings
C10_Witness ==
    /\ mr.pc = "done"
    /\ mr.i = mr.k
    /\ mr.k > 1
    /\ mr.s > 1
    /\ mr.sq = mr.s - 1

-----------------------------------------------------------------------------
(* Specification SpecLRU: sequences of calls of prime_factors and            *)
(* is_primitive_root in one interpreter, through the memo of prime_factors   *)

\* the argument every sequence may come back to: phi for the modulus 7
Revisited == 7 - 1

\* the arguments called one after the other: Revisited + 1, Revisited + 2, ...
NextNew(c) ==
    IF c = <<>> THEN Revisited + 1
    ELSE LET keys == {c[j].key : j \in 1 .. Len(c)} \cup {Revisited}
         IN  1 + CHOOSE k \in keys : \A other \in keys : other <= k

LRUInit ==
    /\ mr = MRIdle
    /\ mr_seen = {}
    /\ nt = NTIdle
    /\ fpr = FPRIdle
    /\ DHIdle
    /\ Fresh

\* lines 117-131: a call prime_factors(n), with an argument not called before
\* or with Revisited
LRU_prime_factors ==
    /\ \E n \in {NextNew(cache), Revisited} :
         /\ n <= Revisited + MaxSweep
         /\ LET r == prime_factors_cached(cache, n)
            IN  /\ nt' = [NTIdle EXCEPT !.fn = "prime_factors", !.n = n,
                                        !.done = TRUE, !.factors = r.ret,
                                        !.hit = r.hit]
                /\ cache' = r.cache
         /\ called' = [called EXCEPT !.prime_factors = @ \cup {n}]
    /\ UNCHANGED <<mrVars, fpr, dhVars, val, ipr_seen>>

\* lines 147-152: a call is_primitive_root(g, Revisited + 1)
LRU_is_primitive_root ==
    /\ \E g \in {2, 3} :
         LET p == Revisited + 1
             r == is_primitive_root_cached(cache, g, p)
         IN  /\ nt' = [NTIdle EXCEPT !.fn = "is_primitive_root", !.g = g,
                                     !.n = p, !.done = TRUE, !.isroot = r.ret,
                                     !.hit = r.hit]
             /\ cache' = r.cache
             /\ ipr_seen' = ipr_seen \cup {[g |-> g, p |-> p, ret |-> r.ret]}
             /\ called' = [is_primitive_root |-> called.is_primitive_root \cup
                                {[g |-> g, p |-> p, passed |-> FALSE]},
                           prime_factors |-> called.prime_factors \cup
                                prime_factors_args(g, p)]
    /\ UNCHANGED <<mrVars, fpr, dhVars, val>>

LRUNext == LRU_prime_factors \/ LRU_is_primitive_root

SpecLRU == LRUInit /\ [][LRUNext]_vars

-----------------------------------------------------------------------------
(* Claims about the memo, under SpecLRU *)

\* C12: after any sequence of calls, with hits, misses and evictions from the
\* memo of 128 entries, prime_factors(n) returns the set the function computes
\* for n without a memo, and the calls of is_primitive_root(g, p) on the same
\* (g, p) have all returned the same result.
C12_MemoTransparent ==
    /\ (nt.fn = "prime_factors" /\ nt.done) => nt.factors = prime_factors(nt.n)
    /\ (nt.fn = "is_primitive_root" /\ nt.done) =>
           nt.isroot = is_primitive_root(nt.g, nt.n)
    /\ \A r1, r2 \in ipr_seen :
           (r1.g = r2.g /\ r1.p = r2.p) => r1.ret = r2.ret

\* prime_factors(6) has just missed in a full memo although 6 was in the memo
\* before, through is_primitive_root(3, 7): the entry had been evicted
C12_Witness ==
    /\ nt.fn = "prime_factors"
    /\ nt.n = Revisited
    /\ ~nt.hit
    /\ nt.factors = {2, 3}
    /\ Len(cache) = maxsize
    /\ [g |-> 3, p |-> 7, ret |-> TRUE] \in ipr_seen

====
